---- MODULE Spec2Model ----
(***************************************************************************)
(* exotic-iter: predicate-counting combinators over pull-based iterators   *)
(* (src/src/lib.rs) and the Alternate adapter (src/src/alternate.rs).      *)
(*                                                                         *)
(* Spec    runs one combinator call, one source pull per step.             *)
(* SpecAlt runs Alternate::next over two scripted sources.                 *)
(***************************************************************************)
EXTENDS Integers, Sequences, FiniteSets

\* ------------------------------------------------------------------ bounds
MaxLen == 3        \* longest source script
MaxN == 2          \* largest threshold n, m
MaxPulls == 6      \* items pulled from a never-exhausting source before the run is cut
MaxAltPulls == 8   \* calls of Alternate::next in one run

\* ------------------------------------------------------------------ data
Items == 0 .. 2
None == -1                      \* Option::None of Iterator::next
Some(x) == x                    \* Option::Some(x); items are >= 0, so Some(x) # None

SeqsUpTo(S, k) == UNION {[1 .. i -> S] : i \in 0 .. k}

Ops == {"at_least", "at_most", "exactly_n", "exactly_m_n", "perfectly_balanced", "all_or_none"}

VARIABLES
    \* one combinator call (lib.rs)
    op,            \* the method called
    src,           \* the items the source holds, in order
    endless,       \* TRUE: the source never exhausts (it repeats src for ever)
    n, m,          \* thresholds
    predicate,     \* the items `predicate` accepts
    predicate_m,   \* the items `predicate_m` accepts
    predicate_n,   \* the items `predicate_n` accepts
    pc,            \* "run" while the call is executing, "done" once it has returned
    result,        \* the returned bool (meaningful when pc = "done")
    taken,         \* number of items the source has yielded so far
    nones,         \* number of pulls the source answered with None
    calls,         \* predicate invocations so far: <<name, index of the item in the stream>>
    count, total,  \* locals of the loops; count is also the fold accumulator of Iterator::count
    count_m, count_n,
    has_pass, has_fail,
    take_n,        \* Take::n, the remaining quota of take(n)
    skip_n,        \* Skip::n, the matches skip(n) still has to drop
    verdicts,      \* what earlier calls on the same sequence, predicate and n returned
    \* Alternate (alternate.rs)
    a, b,          \* the two sources: scripts of Some(item) / None answers, None for ever after
    a_pulls, b_pulls,  \* number of next() calls issued to a, to b
    odd, done,     \* Alternate::odd, Alternate::done
    out            \* what Alternate::next has returned so far, in order

itervars == <<op, src, endless, n, m, predicate, predicate_m, predicate_n, pc, result,
              taken, nones, calls, count, total, count_m, count_n, has_pass, has_fail,
              take_n, skip_n, verdicts>>
altvars == <<a, b, a_pulls, b_pulls, odd, done, out>>
vars == <<itervars, altvars>>

\* ------------------------------------------------------------------ the source iterator
\* The i-th item (1-based) the source yields.
StreamAt(i) == IF endless THEN src[((i - 1) % Len(src)) + 1] ELSE src[i]

\* Iterator::next on the source of the running call: Some(item) or None.
SourceNext ==
    IF endless \/ taken < Len(src) THEN Some(StreamAt(taken + 1)) ELSE None

\* A never-exhausting source is followed for MaxPulls items only.
CanPull == endless => taken < MaxPulls

\* predicate(&item)
Test(p, item) == item \in p

\* ------------------------------------------------------------------ initial states
IterIdle ==
    /\ op = "idle" /\ src = <<>> /\ endless = FALSE /\ n = 0 /\ m = 0
    /\ predicate = {} /\ predicate_m = {} /\ predicate_n = {}
    /\ pc = "done" /\ result = FALSE /\ taken = 0 /\ nones = 0 /\ calls = <<>>
    /\ count = 0 /\ total = 0 /\ count_m = 0 /\ count_n = 0
    /\ has_pass = FALSE /\ has_fail = FALSE /\ take_n = 0 /\ skip_n = 0
    /\ verdicts = <<>>

AltIdle ==
    /\ a = <<>> /\ b = <<>> /\ a_pulls = 0 /\ b_pulls = 0
    /\ odd = FALSE /\ done = FALSE /\ out = <<>>

\* The state on entry to a combinator: the arguments are bound, the locals initialised.
Init ==
    /\ op \in Ops
    /\ src \in SeqsUpTo(Items, MaxLen)
    /\ endless \in BOOLEAN
    /\ endless => Len(src) > 0
    /\ n \in (IF op \in {"perfectly_balanced", "all_or_none"} THEN {0} ELSE 0 .. MaxN)
    /\ m \in (IF op = "exactly_m_n" THEN 0 .. MaxN ELSE {0})
    /\ predicate \in (IF op = "exactly_m_n" THEN {{}} ELSE SUBSET Items)
    /\ predicate_m \in (IF op = "exactly_m_n" THEN SUBSET Items ELSE {{}})
    /\ predicate_n \in (IF op = "exactly_m_n" THEN SUBSET Items ELSE {{}})
    /\ pc = "run" /\ result = FALSE
    /\ taken = 0 /\ nones = 0 /\ calls = <<>>
    /\ count = 0 /\ total = 0 /\ count_m = 0 /\ count_n = 0
    /\ has_pass = FALSE /\ has_fail = FALSE
    /\ take_n = (IF op = "at_least" THEN n ELSE 0)
    /\ skip_n = (IF op = "at_most" THEN n ELSE 0)
    /\ verdicts = <<>>
    /\ AltIdle

\* ------------------------------------------------------------------ helpers of the steps
Return(v) == pc' = "done" /\ result' = v

\* The source answers None.
PullNone == taken' = taken /\ nones' = nones + 1

\* The source yields its next item.
PullItem == taken' = taken + 1 /\ nones' = nones

Args == <<op, src, endless, n, m, predicate, predicate_m, predicate_n>>

\* ------------------------------------------------------------------ at_least
\* self.filter(predicate).take(n).count() == n
\* Variant: a strict comparison in the final test.
AtLeastVerdictStrict(c, k) == c > k
AtLeastVerdict(c, k) == c = k

\* Variant: take(n) never notices that its quota is used up.
TakeExhaustedNever(k) == FALSE

\* Take's test `n == 0`: the quota is used up, nothing more is pulled.
TakeExhausted(k) == k = 0

AtLeastStep ==
    /\ op = "at_least" /\ pc = "run" /\ CanPull
    /\ IF TakeExhausted(take_n)
       THEN \* Take yields nothing once its quota is 0: no pull is made
            /\ Return(AtLeastVerdict(count, n))
            /\ UNCHANGED <<taken, nones, calls, count, take_n>>
       ELSE IF SourceNext = None
       THEN /\ PullNone
            /\ Return(AtLeastVerdict(count, n))
            /\ UNCHANGED <<calls, count, take_n>>
       ELSE /\ PullItem
            /\ calls' = Append(calls, <<"predicate", taken + 1>>)
            /\ IF Test(predicate, SourceNext)
               THEN /\ count' = count + 1
                    /\ take_n' = take_n - 1
                    /\ IF TakeExhausted(take_n')
                       THEN Return(AtLeastVerdict(count', n))
                       ELSE UNCHANGED <<pc, result>>
               ELSE UNCHANGED <<count, take_n, pc, result>>
    /\ UNCHANGED <<Args, total, count_m, count_n, has_pass, has_fail, skip_n>>
    /\ UNCHANGED <<verdicts, altvars>>

\* ------------------------------------------------------------------ at_most
\* self.filter(predicate).skip(n).count() == 0
\* Variant: the final test tolerates one match too many.
AtMostVerdictOffByOne(c) == c <= 1
AtMostVerdict(c) == c = 0

\* Variant: when the source ends during the skip, the count phase is entered all the
\* same and pulls the ended source once more.
AtMostSkipStepGoesOn ==
    /\ op = "at_most" /\ pc = "run" /\ CanPull
    /\ skip_n > 0
    /\ IF SourceNext = None
       THEN /\ PullNone
            /\ skip_n' = 0
            /\ UNCHANGED <<calls, pc, result>>
       ELSE /\ PullItem
            /\ calls' = Append(calls, <<"predicate", taken + 1>>)
            /\ skip_n' = (IF Test(predicate, SourceNext) THEN skip_n - 1 ELSE skip_n)
            /\ UNCHANGED <<pc, result>>
    /\ UNCHANGED <<Args, count, total, count_m, count_n, has_pass, has_fail, take_n>>
    /\ UNCHANGED <<verdicts, altvars>>

\* Skip::count, first part: with n > 0 it drops n matches through Filter::nth(n - 1);
\* if the source ends before the n-th match, the count is 0.
AtMostSkipStep ==
    /\ op = "at_most" /\ pc = "run" /\ CanPull
    /\ skip_n > 0
    /\ IF SourceNext = None
       THEN /\ PullNone
            /\ Return(AtMostVerdict(0))
            /\ UNCHANGED <<calls, skip_n>>
       ELSE /\ PullItem
            /\ calls' = Append(calls, <<"predicate", taken + 1>>)
            /\ skip_n' = (IF Test(predicate, SourceNext) THEN skip_n - 1 ELSE skip_n)
            /\ UNCHANGED <<pc, result>>
    /\ UNCHANGED <<Args, count, total, count_m, count_n, has_pass, has_fail, take_n>>
    /\ UNCHANGED <<verdicts, altvars>>

\* Variant: the count phase stops at the first match it meets, the (n+1)-th of the call.
AtMostCountStepStopsAtMatch ==
    /\ op = "at_most" /\ pc = "run" /\ CanPull
    /\ skip_n = 0
    /\ IF SourceNext = None
       THEN /\ PullNone
            /\ Return(AtMostVerdict(count))
            /\ UNCHANGED <<calls, count>>
       ELSE /\ PullItem
            /\ calls' = Append(calls, <<"predicate", taken + 1>>)
            /\ count' = (IF Test(predicate, SourceNext) THEN count + 1 ELSE count)
            /\ IF count' > 0
               THEN Return(AtMostVerdict(count'))
               ELSE UNCHANGED <<pc, result>>
    /\ UNCHANGED <<Args, total, count_m, count_n, has_pass, has_fail, take_n, skip_n>>
    /\ UNCHANGED <<verdicts, altvars>>

\* Skip::count, second part: Filter::count tests every remaining item and sums the
\* verdicts; it ends only when the source answers None.
AtMostCountStep ==
    /\ op = "at_most" /\ pc = "run" /\ CanPull
    /\ skip_n = 0
    /\ IF SourceNext = None
       THEN /\ PullNone
            /\ Return(AtMostVerdict(count))
            /\ UNCHANGED <<calls, count>>
       ELSE /\ PullItem
            /\ calls' = Append(calls, <<"predicate", taken + 1>>)
            /\ count' = (IF Test(predicate, SourceNext) THEN count + 1 ELSE count)
            /\ UNCHANGED <<pc, result>>
    /\ UNCHANGED <<Args, total, count_m, count_n, has_pass, has_fail, take_n, skip_n>>
    /\ UNCHANGED <<verdicts, altvars>>

\* ------------------------------------------------------------------ exactly_n
\* Variant: the loop gives up when the count reaches n instead of exceeding it.
ExactlyNExceededEarly(c, k) == c >= k
\* Variant: the loop gives up one match late.
ExactlyNExceededLate(c, k) == c > k + 1
ExactlyNExceeded(c, k) == c > k
\* Variant: a loop that ends without exceeding n is taken for success.
ExactlyNVerdictAlways(c, k) == TRUE
ExactlyNVerdict(c, k) == c = k

\* One iteration of `for item in self`, or the end of the loop and the final test.
ExactlyNStep ==
    /\ op = "exactly_n" /\ pc = "run" /\ CanPull
    /\ IF SourceNext = None
       THEN /\ PullNone
            /\ Return(ExactlyNVerdict(count, n))
            /\ UNCHANGED <<calls, count>>
       ELSE /\ PullItem
            /\ calls' = Append(calls, <<"predicate", taken + 1>>)
            /\ count' = (IF Test(predicate, SourceNext) THEN count + 1 ELSE count)
            /\ IF ExactlyNExceeded(count', n)
               THEN Return(FALSE)
               ELSE UNCHANGED <<pc, result>>
    /\ UNCHANGED <<Args, total, count_m, count_n, has_pass, has_fail, take_n, skip_n>>
    /\ UNCHANGED <<verdicts, altvars>>

\* ------------------------------------------------------------------ exactly_m_n
\* Variant: the loop gives up only when both counts exceed their thresholds.
ExactlyMNExceededBoth(cm, cn, km, kn) == cm > km /\ cn > kn
ExactlyMNExceeded(cm, cn, km, kn) == cm > km \/ cn > kn
\* Variant: the final test accepts one count on target.
ExactlyMNVerdictEither(cm, cn, km, kn) == cm = km \/ cn = kn
ExactlyMNVerdict(cm, cn, km, kn) == <<cm, cn>> = <<km, kn>>

ExactlyMNStep ==
    /\ op = "exactly_m_n" /\ pc = "run" /\ CanPull
    /\ IF SourceNext = None
       THEN /\ PullNone
            /\ Return(ExactlyMNVerdict(count_m, count_n, m, n))
            /\ UNCHANGED <<calls, count_m, count_n>>
       ELSE /\ PullItem
            /\ calls' = calls \o <<  <<"predicate_m", taken + 1>>, <<"predicate_n", taken + 1>>  >>
            /\ count_m' = (IF Test(predicate_m, SourceNext) THEN count_m + 1 ELSE count_m)
            /\ count_n' = (IF Test(predicate_n, SourceNext) THEN count_n + 1 ELSE count_n)
            /\ IF ExactlyMNExceeded(count_m', count_n', m, n)
               THEN Return(FALSE)
               ELSE UNCHANGED <<pc, result>>
    /\ UNCHANGED <<Args, count, total, has_pass, has_fail, take_n, skip_n>>
    /\ UNCHANGED <<verdicts, altvars>>

\* ------------------------------------------------------------------ perfectly_balanced
\* Variant: the final test forgets that the total must be even.
PerfectlyBalancedVerdictNoParity(t, c) == t \div 2 = c
PerfectlyBalancedVerdict(t, c) == t % 2 = 0 /\ t \div 2 = c

PerfectlyBalancedStep ==
    /\ op = "perfectly_balanced" /\ pc = "run" /\ CanPull
    /\ IF SourceNext = None
       THEN /\ PullNone
            /\ Return(PerfectlyBalancedVerdict(total, count))
            /\ UNCHANGED <<calls, count, total>>
       ELSE /\ PullItem
            /\ total' = total + 1
            /\ calls' = Append(calls, <<"predicate", taken + 1>>)
            /\ count' = (IF Test(predicate, SourceNext) THEN count + 1 ELSE count)
            /\ UNCHANGED <<pc, result>>
    /\ UNCHANGED <<Args, count_m, count_n, has_pass, has_fail, take_n, skip_n>>
    /\ UNCHANGED <<verdicts, altvars>>

\* ------------------------------------------------------------------ all_or_none
\* Variant: one flag is enough to report a mixed result.
AllOrNoneMixedEither(p, f) == p \/ f
\* Variant: a mixed result is never noticed inside the loop.
AllOrNoneMixedNever(p, f) == FALSE
AllOrNoneMixed(p, f) == p /\ f

\* Variant: the predicate is evaluated once for each flag, twice per item.
AllOrNoneStepTestsTwice ==
    /\ op = "all_or_none" /\ pc = "run" /\ CanPull
    /\ IF SourceNext = None
       THEN /\ PullNone
            /\ Return(TRUE)
            /\ UNCHANGED <<calls, has_pass, has_fail>>
       ELSE /\ PullItem
            /\ calls' = calls \o <<  <<"predicate", taken + 1>>, <<"predicate", taken + 1>>  >>
            /\ IF Test(predicate, SourceNext)
               THEN has_pass' = TRUE /\ has_fail' = has_fail
               ELSE has_fail' = TRUE /\ has_pass' = has_pass
            /\ IF AllOrNoneMixed(has_pass', has_fail')
               THEN Return(FALSE)
               ELSE UNCHANGED <<pc, result>>
    /\ UNCHANGED <<Args, count, total, count_m, count_n, take_n, skip_n>>
    /\ UNCHANGED <<verdicts, altvars>>

AllOrNoneStep ==
    /\ op = "all_or_none" /\ pc = "run" /\ CanPull
    /\ IF SourceNext = None
       THEN /\ PullNone
            /\ Return(TRUE)
            /\ UNCHANGED <<calls, has_pass, has_fail>>
       ELSE /\ PullItem
            /\ calls' = Append(calls, <<"predicate", taken + 1>>)
            /\ IF Test(predicate, SourceNext)
               THEN has_pass' = TRUE /\ has_fail' = has_fail
               ELSE has_fail' = TRUE /\ has_pass' = has_pass
            /\ IF AllOrNoneMixed(has_pass', has_fail')
               THEN Return(FALSE)
               ELSE UNCHANGED <<pc, result>>
    /\ UNCHANGED <<Args, count, total, count_m, count_n, take_n, skip_n>>
    /\ UNCHANGED <<verdicts, altvars>>

\* ------------------------------------------------------------------ Alternate
\* The answers a scripted source can give: Some(item) or None.
Answers == Items \cup {None}

\* Iterator::next on a scripted source that has been pulled k times already.
ScriptNext(script, k) == IF k < Len(script) THEN script[k + 1] ELSE None

\* Alternate::new, over every pair of sources.
InitAlt ==
    /\ IterIdle
    /\ a \in SeqsUpTo(Answers, MaxLen)
    /\ b \in SeqsUpTo(Answers, MaxLen)
    /\ a_pulls = 0 /\ b_pulls = 0
    /\ odd = FALSE
    /\ done = FALSE
    /\ out = <<>>

\* Variant: the finished flag is ignored.
AltFinishedNever(d) == FALSE

\* `if self.done { return None }`
AltFinished(d) == d

\* Variant: the turn never changes.
AltToggleStuck(o) == o

\* `self.odd = !self.odd`
AltToggle(o) == ~o

\* Variant: the finished flag is never set.
AltDoneAfterNever(item, d) == d

\* `if item.is_none() { self.done = true }`
AltDoneAfter(item, d) == IF item = None THEN TRUE ELSE d

\* Variant: the turn changes only when the source yields an item.
AltNextKeepsTurnOnNone ==
    /\ Len(out) < MaxAltPulls
    /\ IF AltFinished(done)
       THEN /\ out' = Append(out, None)
            /\ UNCHANGED <<a, b, a_pulls, b_pulls, odd, done>>
       ELSE LET item == IF odd THEN ScriptNext(b, b_pulls) ELSE ScriptNext(a, a_pulls)
            IN /\ a_pulls' = (IF odd THEN a_pulls ELSE a_pulls + 1)
               /\ b_pulls' = (IF odd THEN b_pulls + 1 ELSE b_pulls)
               /\ done' = AltDoneAfter(item, done)
               /\ odd' = (IF item = None THEN odd ELSE AltToggle(odd))
               /\ out' = Append(out, item)
               /\ UNCHANGED <<a, b>>
    /\ UNCHANGED itervars

\* Variant: both sources are pulled on every call, as a zip would, and the item of the
\* source whose turn it is not gets lost.
AltNextPullsBoth ==
    /\ Len(out) < MaxAltPulls
    /\ IF AltFinished(done)
       THEN /\ out' = Append(out, None)
            /\ UNCHANGED <<a, b, a_pulls, b_pulls, odd, done>>
       ELSE LET item == IF odd THEN ScriptNext(b, b_pulls) ELSE ScriptNext(a, a_pulls)
            IN /\ a_pulls' = a_pulls + 1
               /\ b_pulls' = b_pulls + 1
               /\ done' = AltDoneAfter(item, done)
               /\ odd' = AltToggle(odd)
               /\ out' = Append(out, item)
               /\ UNCHANGED <<a, b>>
    /\ UNCHANGED itervars

\* One call of Alternate::next.
AltNext ==
    /\ Len(out) < MaxAltPulls
    /\ IF AltFinished(done)
       THEN /\ out' = Append(out, None)
            /\ UNCHANGED <<a, b, a_pulls, b_pulls, odd, done>>
       ELSE LET item == IF odd THEN ScriptNext(b, b_pulls) ELSE ScriptNext(a, a_pulls)
            IN /\ a_pulls' = (IF odd THEN a_pulls ELSE a_pulls + 1)
               /\ b_pulls' = (IF odd THEN b_pulls + 1 ELSE b_pulls)
               /\ done' = AltDoneAfter(item, done)
               /\ odd' = AltToggle(odd)
               /\ out' = Append(out, item)
               /\ UNCHANGED <<a, b>>
    /\ UNCHANGED itervars

NextAlt == AltNext

SpecAlt == InitAlt /\ [][NextAlt]_vars

\* ------------------------------------------------------------------ three calls on one input
\* The caller asks at_least, then at_most, then exactly_n about the same sequence, the
\* same predicate and the same n, each call on a fresh iterator over the sequence.
CallAgain ==
    /\ pc = "done" /\ ~endless
    /\ op \in {"at_least", "at_most"}
    /\ verdicts' = Append(verdicts, result)
    /\ op' = (IF op = "at_least" THEN "at_most" ELSE "exactly_n")
    /\ pc' = "run" /\ result' = FALSE
    /\ taken' = 0 /\ nones' = 0 /\ calls' = <<>>
    /\ count' = 0 /\ total' = 0 /\ count_m' = 0 /\ count_n' = 0
    /\ has_pass' = FALSE /\ has_fail' = FALSE
    /\ take_n' = 0
    /\ skip_n' = (IF op' = "at_most" THEN n ELSE 0)
    /\ UNCHANGED <<src, endless, n, m, predicate, predicate_m, predicate_n>>
    /\ UNCHANGED altvars

InitTrio == Init /\ op = "at_least" /\ ~endless

NextTrio ==
    \/ AtLeastStep
    \/ AtMostSkipStep
    \/ AtMostCountStep
    \/ ExactlyNStep
    \/ CallAgain

SpecTrio == InitTrio /\ [][NextTrio]_vars

\* ------------------------------------------------------------------ specification
Next ==
    \/ AtLeastStep
    \/ AtMostSkipStep
    \/ AtMostCountStep
    \/ ExactlyNStep
    \/ ExactlyMNStep
    \/ PerfectlyBalancedStep
    \/ AllOrNoneStep

Spec == Init /\ [][Next]_vars

\* ================================================================== properties
\* The number of items of sequence s that predicate p accepts.
MatchCount(s, p) == Cardinality({i \in 1 .. Len(s) : s[i] \in p})

\* A call of method o on a finite source has returned.
Returned(o) == op = o /\ pc = "done" /\ ~endless

\* C1: on every finite sequence, at_least(n, P) returns true iff the number of items
\* satisfying P is >= n (n = 0 and the empty sequence included).
Thm_C1_AtLeast ==
    Returned("at_least") => (result <=> MatchCount(src, predicate) >= n)

Wit_C1_AtLeast ==
    /\ Returned("at_least") /\ result = TRUE
    /\ n = 2 /\ Len(src) = 3 /\ MatchCount(src, predicate) = 2

\* C2: on every finite sequence, at_most(n, P) returns true iff the number of items
\* satisfying P is <= n (n = 0 and the empty sequence included).
Thm_C2_AtMost ==
    Returned("at_most") => (result <=> MatchCount(src, predicate) <= n)

Wit_C2_AtMost ==
    /\ Returned("at_most") /\ result = FALSE
    /\ n = 1 /\ Len(src) = 3 /\ MatchCount(src, predicate) = 2

\* C3: on every finite sequence, exactly_n(n, P) returns true iff the number of items
\* satisfying P is exactly n; it returns false below n and above n.
Thm_C3_ExactlyN ==
    Returned("exactly_n") =>
        /\ result <=> MatchCount(src, predicate) = n
        /\ MatchCount(src, predicate) < n => result = FALSE
        /\ MatchCount(src, predicate) > n => result = FALSE

Wit_C3_ExactlyN ==
    /\ Returned("exactly_n") /\ result = TRUE
    /\ n = 2 /\ Len(src) = 3 /\ MatchCount(src, predicate) = 2

\* C4: on every finite sequence, exactly_m_n(m, Pm, n, Pn) returns true iff the number
\* of items satisfying Pm is m and the number satisfying Pn is n, both at once; an item
\* may count for both predicates, for one, or for neither.
Thm_C4_ExactlyMN ==
    Returned("exactly_m_n") =>
        (result <=> /\ MatchCount(src, predicate_m) = m
                    /\ MatchCount(src, predicate_n) = n)

\* A true verdict on a sequence holding an item of both predicates, an item of
\* predicate_m alone and an item of neither.
Wit_C4_ExactlyMN ==
    /\ Returned("exactly_m_n") /\ result = TRUE
    /\ m = 2 /\ n = 1 /\ Len(src) = 3
    /\ \E i \in 1 .. 3 : src[i] \in predicate_m \cap predicate_n
    /\ \E i \in 1 .. 3 : src[i] \in predicate_m \ predicate_n
    /\ \E i \in 1 .. 3 : src[i] \notin predicate_m \cup predicate_n

\* C5: on every finite sequence, all_or_none(P) returns true iff the sequence is empty,
\* or every item satisfies P, or no item satisfies P.
Thm_C5_AllOrNone ==
    Returned("all_or_none") =>
        (result <=> \/ src = <<>>
                    \/ \A i \in 1 .. Len(src) : src[i] \in predicate
                    \/ \A i \in 1 .. Len(src) : src[i] \notin predicate)

Wit_C5_AllOrNone ==
    /\ Returned("all_or_none") /\ result = TRUE
    /\ Len(src) = 3 /\ MatchCount(src, predicate) = 3
    /\ predicate # Items

\* C6: on every finite sequence, perfectly_balanced(P) returns true iff the length is
\* even and exactly half of the items satisfy P; it is true on the empty sequence and
\* false on every sequence of odd length.
Thm_C6_PerfectlyBalanced ==
    Returned("perfectly_balanced") =>
        /\ result <=> (Len(src) % 2 = 0 /\ 2 * MatchCount(src, predicate) = Len(src))
        /\ src = <<>> => result = TRUE
        /\ Len(src) % 2 = 1 => result = FALSE

Wit_C6_PerfectlyBalanced ==
    /\ Returned("perfectly_balanced") /\ result = FALSE
    /\ Len(src) = 3 /\ MatchCount(src, predicate) = 1

\* The number of items a scripted source yields before its first None.
NatLen(script) ==
    IF \E i \in 1 .. Len(script) : script[i] = None
    THEN (CHOOSE i \in 1 .. Len(script) :
              script[i] = None /\ \A h \in 1 .. i - 1 : script[h] # None) - 1
    ELSE Len(script)

Min(x, y) == IF x <= y THEN x ELSE y

\* C7: with sources of k and j items, alternate yields A[0], B[0], A[1], B[1], ...
\* before its first None; it yields 2*min(k,j) items when k <= j (the None comes from A)
\* and 2*min(k,j) + 1 items when k > j (the None comes from B), and the longer source
\* is not pulled any further.
Thm_C7_AlternateOrder ==
    LET k == NatLen(a)
        j == NatLen(b)
        mn == Min(k, j)
        tot == IF k <= j THEN 2 * mn ELSE 2 * mn + 1
        y == NatLen(out)
    IN /\ y <= tot
       /\ \A i \in 1 .. y :
              out[i] = (IF i % 2 = 1 THEN a[(i + 1) \div 2] ELSE b[i \div 2])
       /\ Len(out) > y =>
              /\ y = tot
              /\ a_pulls = mn + 1
              /\ b_pulls = (IF k <= j THEN mn ELSE mn + 1)

\* Three items in the first source, two in the second: five items, then None twice.
Wit_C7_AlternateOrder ==
    /\ NatLen(a) = 3 /\ NatLen(b) = 2
    /\ NatLen(out) = 5 /\ Len(out) = 7

\* C8: once Alternate::next has returned None, every later call returns None and
\* pulls from neither source, whatever the sources would still answer.
Thm_C8_AlternateStaysFinished ==
    LET f == NatLen(out) + 1     \* the call that returned the first None
    IN Len(out) >= f =>
           /\ \A i \in f .. Len(out) : out[i] = None
           /\ a_pulls + b_pulls = f

\* Two calls after the first None, while the first source would yield an item again
\* after its None and the second source still holds an item.
Wit_C8_AlternateStaysFinished ==
    /\ Len(out) >= NatLen(out) + 3
    /\ a_pulls > NatLen(a)
    /\ ScriptNext(a, a_pulls) # None
    /\ ScriptNext(b, b_pulls) # None

\* The number of matches of `predicate` among the first i items of the stream.
MatchesIn(i) == Cardinality({h \in 1 .. i : StreamAt(h) \in predicate})

\* The stream holds at least k matches.
HoldsMatches(k) ==
    \/ k = 0
    \/ IF endless THEN MatchCount(src, predicate) > 0 ELSE MatchCount(src, predicate) >= k

\* The position in the stream of the k-th match (0 for k = 0), when it holds k matches.
NthMatchIndex(k) ==
    IF k = 0 THEN 0
    ELSE CHOOSE i \in 1 .. (IF endless THEN k * Len(src) ELSE Len(src)) :
             MatchesIn(i) = k /\ StreamAt(i) \in predicate

\* C9: when the source holds at least n matches, at_least(n, P) pulls exactly the
\* prefix ending at the n-th match (nothing for n = 0), returns true right there and
\* pulls nothing after it, also from a source that never exhausts.
Thm_C9_AtLeastStops ==
    (op = "at_least" /\ HoldsMatches(n)) =>
        /\ taken <= NthMatchIndex(n)
        /\ nones = 0
        /\ pc = "done" => (taken = NthMatchIndex(n) /\ result = TRUE)
        /\ (n > 0 /\ taken = NthMatchIndex(n)) => pc = "done"

\* A never-exhausting source, followed into its second round up to the second match.
Wit_C9_AtLeastStops ==
    /\ op = "at_least" /\ pc = "done" /\ endless
    /\ n = 2 /\ Len(src) = 3 /\ taken = 5

\* C10 as stated: at_most(n, P) pulls no item after the (n+1)-th item satisfying P.
Cex_C10_AtMostStopsAtMatch ==
    op = "at_most" => \A i \in 1 .. taken - 1 : MatchesIn(i) <= n

\* C10, amended: at_most(n, P) does not stop at the (n+1)-th match; it returns only
\* after its source has answered None, having pulled and tested every item of the
\* sequence, and so never returns on a source that never exhausts.
Thm_C10_AtMostTraverses ==
    (op = "at_most" /\ pc = "done") =>
        /\ ~endless
        /\ taken = Len(src)
        /\ nones = 1
        /\ Len(calls) = Len(src)

\* The first item is the (n+1)-th match, and the two items after it are pulled too.
Wit_C10_AtMostTraverses ==
    /\ Returned("at_most") /\ result = FALSE
    /\ n = 0 /\ Len(src) = 3 /\ src[1] \in predicate /\ taken = 3

\* C11: exactly_n(n, P) returns false right after pulling the (n+1)-th matching item
\* and pulls nothing after it; with n = 0 that is the first matching item.
Thm_C11_ExactlyNFailsFast ==
    op = "exactly_n" =>
        /\ \A i \in 0 .. taken - 1 : MatchesIn(i) <= n
        /\ MatchesIn(taken) > n =>
               /\ MatchesIn(taken) = n + 1
               /\ StreamAt(taken) \in predicate
               /\ pc = "done" /\ result = FALSE
               /\ nones = 0

\* The second match arrives with n = 1 while an item is still left in the source.
Wit_C11_ExactlyNFailsFast ==
    /\ Returned("exactly_n") /\ result = FALSE
    /\ n = 1 /\ Len(src) = 3 /\ taken = 2 /\ nones = 0

\* The verdict of `predicate` on the i-th item of the stream.
Verdict(i) == StreamAt(i) \in predicate

\* C12: all_or_none(P) returns false at the first item whose verdict differs from the
\* verdict of the first item; that item is the last one pulled and tested.
Thm_C12_AllOrNoneFailsFast ==
    op = "all_or_none" =>
        /\ \A i \in 1 .. taken - 1 : Verdict(i) = Verdict(1)
        /\ (taken >= 1 /\ Verdict(taken) # Verdict(1)) =>
               /\ pc = "done" /\ result = FALSE
               /\ nones = 0
               /\ Len(calls) = taken
        /\ (pc = "done" /\ result = FALSE) =>
               (taken >= 2 /\ Verdict(taken) # Verdict(1))

\* The second of three items differs from the first: the third is left unpulled.
Wit_C12_AllOrNoneFailsFast ==
    /\ Returned("all_or_none") /\ result = FALSE
    /\ Len(src) = 3 /\ taken = 2 /\ nones = 0

\* The number of items among the first i of the stream that p accepts.
MatchesOf(p, i) == Cardinality({h \in 1 .. i : StreamAt(h) \in p})

\* C14: exactly_m_n calls predicate_m and then predicate_n, once each, on every item
\* it pulls, the item that makes a count exceed its threshold included; it returns
\* false right after that item and pulls nothing more.
Thm_C14_ExactlyMNCalls ==
    op = "exactly_m_n" =>
        /\ Len(calls) = 2 * taken
        /\ \A i \in 1 .. taken :
               /\ calls[2 * i - 1] = <<"predicate_m", i>>
               /\ calls[2 * i] = <<"predicate_n", i>>
        /\ \A i \in 0 .. taken - 1 :
               MatchesOf(predicate_m, i) <= m /\ MatchesOf(predicate_n, i) <= n
        /\ (MatchesOf(predicate_m, taken) > m \/ MatchesOf(predicate_n, taken) > n) =>
               (pc = "done" /\ result = FALSE /\ nones = 0)

\* predicate_m has reached m = 1 on the first item; the second item exceeds n = 0
\* under predicate_n alone, and the third item is left unpulled.
Wit_C14_ExactlyMNCalls ==
    /\ Returned("exactly_m_n") /\ result = FALSE
    /\ m = 1 /\ n = 0 /\ Len(src) = 3 /\ taken = 2
    /\ src[1] \in predicate_m \ predicate_n
    /\ src[2] \in predicate_n \ predicate_m
    /\ Len(calls) = 4

\* C15: at_least, at_most, exactly_n, all_or_none and perfectly_balanced call the
\* predicate exactly once on every item pulled, in the order of the pulls, and on
\* nothing else.
Thm_C15_OneCallPerItem ==
    op \in {"at_least", "at_most", "exactly_n", "all_or_none", "perfectly_balanced"} =>
        /\ Len(calls) = taken
        /\ \A i \in 1 .. taken : calls[i] = <<"predicate", i>>

\* at_most has gone through its skip phase and its count phase.
Wit_C15_OneCallPerItem ==
    /\ Returned("at_most") /\ n = 1 /\ Len(src) = 3 /\ taken = 3
    /\ MatchCount(src, predicate) = 2 /\ Len(calls) = 3

\* The number of calls of Alternate::next made while it was not finished: all of them
\* up to and including the one that returned the first None.
LivePulls == Min(Len(out), NatLen(out) + 1)

\* C16: the turn starts on the first source and changes once on every call made while
\* not finished, the call that returns the first None included, and on no later call;
\* so the i-th item yielded (from 0) comes from the first source for even i and from
\* the second for odd i.
Thm_C16_AlternateTurn ==
    /\ out = <<>> => odd = FALSE
    /\ odd <=> (LivePulls % 2 = 1)
    /\ \A i \in 0 .. NatLen(out) - 1 :
           out[i + 1] = (IF i % 2 = 0 THEN a[(i \div 2) + 1] ELSE b[(i \div 2) + 1])

\* Two items, then the first None on the third call (the turn changes a third time),
\* then one more call that leaves the turn alone.
Wit_C16_AlternateTurn ==
    /\ done /\ odd
    /\ NatLen(out) = 2 /\ Len(out) = 4

\* C17: every call made while not finished pulls once from the source whose turn it
\* is and returns that source's answer, leaving the other source alone: the answers
\* come out one for one, in order, none kept back, lost or repeated.
Thm_C17_AlternateForwards ==
    /\ a_pulls = (LivePulls + 1) \div 2
    /\ b_pulls = LivePulls \div 2
    /\ \A i \in 1 .. LivePulls :
           out[i] = (IF i % 2 = 1 THEN ScriptNext(a, (i - 1) \div 2)
                                  ELSE ScriptNext(b, (i \div 2) - 1))

\* Four calls, none finished: two answers of each source, the first two differing.
Wit_C17_AlternateForwards ==
    /\ ~done /\ Len(out) = 4
    /\ a_pulls = 2 /\ b_pulls = 2
    /\ out[1] # out[2] /\ out[3] # out[1]

\* The number of items (not None) a scripted source gave in its first k answers.
ItemsGiven(script, k) == Cardinality({i \in 0 .. k - 1 : ScriptNext(script, i) # None})

\* C19: the first source has given as many items as the second, or one more; while not
\* finished it is as many exactly when the turn is on the first source; and the two
\* sources together have answered None at most once.
Thm_C19_AlternateBalance ==
    LET ai == ItemsGiven(a, a_pulls)
        bi == ItemsGiven(b, b_pulls)
    IN /\ ai - bi \in {0, 1}
       /\ ~done => ((ai - bi = 0) <=> ~odd)
       /\ (a_pulls - ai) + (b_pulls - bi) <= 1

\* The second source ran out first: one item more from the first source, one None,
\* and a further call after that.
Wit_C19_AlternateBalance ==
    /\ done /\ Len(out) = 5 /\ NatLen(out) = 3
    /\ ItemsGiven(a, a_pulls) = 2 /\ ItemsGiven(b, b_pulls) = 1
    /\ b_pulls = 2

\* C18: on a finite sequence S every combinator returns a boolean after at most
\* |S| + 1 pulls: while it has not returned it can take a step, every step is a pull
\* or the return, a None is answered at most once and ends the call; and
\* perfectly_balanced returns only after the source has answered None.
Thm_C18_Total ==
    (op \in Ops /\ ~endless) =>
        /\ taken <= Len(src) /\ nones <= 1
        /\ taken + nones <= Len(src) + 1
        /\ pc = "run" => (ENABLED Next /\ nones = 0)
        /\ pc = "done" => result \in BOOLEAN
        /\ nones = 1 => pc = "done"
        /\ (op = "perfectly_balanced" /\ pc = "done") =>
               (taken = Len(src) /\ nones = 1)

\* perfectly_balanced has returned after |S| + 1 = 4 pulls.
Wit_C18_Total ==
    /\ Returned("perfectly_balanced")
    /\ Len(src) = 3 /\ taken = 3 /\ nones = 1

\* C13: on one finite sequence, predicate and n, at_least and at_most are never both
\* false; both are true exactly when the match count is n, so exactly_n equals their
\* conjunction; above n at_least alone is true, below n at_most alone.
Thm_C13_Complementary ==
    (op = "exactly_n" /\ pc = "done" /\ Len(verdicts) = 2) =>
        LET al == verdicts[1]
            am == verdicts[2]
            ex == result
            c == MatchCount(src, predicate)
        IN /\ al \/ am
           /\ (al /\ am) <=> c = n
           /\ ex <=> (al /\ am)
           /\ c > n => (al /\ ~am)
           /\ c < n => (~al /\ am)

\* Two matches against n = 1: at_least true, at_most false, exactly_n false.
Wit_C13_Complementary ==
    /\ op = "exactly_n" /\ pc = "done" /\ verdicts = <<TRUE, FALSE>>
    /\ result = FALSE /\ n = 1 /\ Len(src) = 3
====
